---- MODULE Spec2Model ----
(***************************************************************************)
(* A model of app/dashboard.py: the retrying fetch of one FRED series      *)
(* (fetch_fred_series), the threshold classifier (get_signal_for_value)    *)
(* and the snapshot build and temp-file-then-rename write of               *)
(* run_dashboard.                                                          *)
(*                                                                         *)
(* Numbers are fixed-point with FracDigits decimals.  Python's None is     *)
(* the empty tuple and a present optional x is <<x>>, so that optionals of *)
(* every type compare.  Console output (print) is not modelled.            *)
(***************************************************************************)
EXTENDS Integers, Sequences, FiniteSets, TLC

VARIABLES
    pc,             \* position of the single thread of control
    modern_requests,\* build: resp.json() raises requests' own JSONDecodeError
    api_key,        \* FRED_API_KEY as read from the environment (optional)
    max_retries,    \* argument of fetch_fred_series
    attempt,        \* loop variable of fetch_fred_series
    trace,          \* HTTP requests issued and sleeps taken, in order
    value,          \* fetch result: optional number
    obs_date,       \* fetch result: optional date string
    error,          \* fetch result: optional error message
    thresholds,     \* thresholds map handed to get_signal_for_value
    signal,         \* result of get_signal_for_value
    unrate_cfg,     \* cfg["indicators"]["unrate"] (optional dict)
    other_indicators, \* the other keys cfg["indicators"] declares
    mode,           \* argument of run_dashboard
    clock,          \* the wall clock now_utc() reads
    indicators,     \* the indicators list being built
    payload,        \* the payload document (optional)
    fs,             \* the data directory: path -> optional file
    prior,          \* history: the destination file before the run
    renamed,        \* history: os.rename has happened
    failed_step,    \* history: the first step of the write that failed
    exit_status,    \* process exit status (optional)
    procs,          \* two concurrent runs: each run's position and open file
    dir,            \* two concurrent runs: the directory, path -> inode
    inodes          \* two concurrent runs: the files, inode -> content

fetchVars == <<attempt, trace, value, obs_date, error>>
concVars == <<procs, dir, inodes>>
runVars == <<unrate_cfg, other_indicators, mode, clock, indicators, payload, fs, prior, renamed,
             failed_step, exit_status, procs, dir, inodes>>
vars == <<pc, modern_requests, api_key, max_retries, attempt, trace,
          value, obs_date, error, thresholds, signal, unrate_cfg, other_indicators,
          mode, clock,
          indicators, payload, fs, prior, renamed, failed_step, exit_status,
          procs, dir, inodes>>

(***************************************************************************)
(* Bounds of the model.                                                    *)
(***************************************************************************)
MaxRetriesBound == 3    \* largest max_retries a direct call is given
DocChunks == 2          \* writes json.dump takes to put a document in a file
MaxClock == 2           \* the clock runs from 1 to MaxClock
FracDigits == 3         \* fraction digits a number of the model carries

(***************************************************************************)
(* Python values.                                                          *)
(***************************************************************************)
None == <<>>
Some(x) == <<x>>

\* Python truthiness of an optional string: None and "" are falsy.
Truthy(opt) == opt # None /\ opt[1] # ""

\* Extended reals, for float("inf") as a default threshold.
Fin(n) == [inf |-> FALSE, n |-> n]
Inf == [inf |-> TRUE, n |-> 0]
Leq(a, b) == b.inf \/ (~a.inf /\ a.n <= b.n)

\* dict.get(key, default) on a thresholds map.
dict_get(d, key, default) == IF key \in DOMAIN d THEN Fin(d[key]) ELSE default

(***************************************************************************)
(* float(value_str): value strings are tuples of characters.  The result   *)
(* is in units of 10^-FracDigits; ok is FALSE where float() raises         *)
(* ValueError.                                                             *)
(***************************************************************************)
DigitChars == {"0", "1", "2", "3", "4", "5", "6", "7", "8", "9"}

DigitVal(c) ==
    CASE c = "0" -> 0 [] c = "1" -> 1 [] c = "2" -> 2 [] c = "3" -> 3
      [] c = "4" -> 4 [] c = "5" -> 5 [] c = "6" -> 6 [] c = "7" -> 7
      [] c = "8" -> 8 [] c = "9" -> 9

RECURSIVE DigitsValue(_)
DigitsValue(s) ==
    IF s = <<>> THEN 0
    ELSE DigitsValue(SubSeq(s, 1, Len(s) - 1)) * 10 + DigitVal(s[Len(s)])

DotPositions(s) == {i \in 1..Len(s) : s[i] = "."}

IsNumeral(s) ==
    /\ \A i \in 1..Len(s) : s[i] \in DigitChars \cup {"."}
    /\ Cardinality(DotPositions(s)) <= 1
    /\ \E i \in 1..Len(s) : s[i] \in DigitChars
    /\ \A p \in DotPositions(s) : Len(s) - p <= FracDigits

float(s) ==
    IF ~IsNumeral(s) THEN [ok |-> FALSE, val |-> 0]
    ELSE IF DotPositions(s) = {} THEN [ok |-> TRUE, val |-> DigitsValue(s) * 10^FracDigits]
    ELSE LET p == CHOOSE i \in DotPositions(s) : TRUE
             whole == SubSeq(s, 1, p - 1)
             frac == SubSeq(s, p + 1, Len(s))
         IN [ok |-> TRUE,
             val |-> DigitsValue(whole) * 10^FracDigits
                       + DigitsValue(frac) * 10^(FracDigits - Len(frac))]

(***************************************************************************)
(* get_signal_for_value (lines 143-151).                                   *)
(***************************************************************************)
\* variant: a missing threshold defaults to 0
get_signal_for_value_zero_default(v, th) ==
    IF v = None THEN "unknown"
    ELSE IF Leq(Fin(v[1]), dict_get(th, "green_max", Fin(0))) THEN "green"
    ELSE IF Leq(Fin(v[1]), dict_get(th, "yellow_max", Fin(0))) THEN "yellow"
    ELSE "red"

\* variant: the comparisons are strict
get_signal_for_value_strict(v, th) ==
    IF v = None THEN "unknown"
    ELSE IF ~Leq(dict_get(th, "green_max", Inf), Fin(v[1])) THEN "green"
    ELSE IF ~Leq(dict_get(th, "yellow_max", Inf), Fin(v[1])) THEN "yellow"
    ELSE "red"

get_signal_for_value(v, th) ==
    IF v = None THEN "unknown"
    ELSE IF Leq(Fin(v[1]), dict_get(th, "green_max", Inf)) THEN "green"
    ELSE IF Leq(Fin(v[1]), dict_get(th, "yellow_max", Inf)) THEN "yellow"
    ELSE "red"

(***************************************************************************)
(* The outside world of fetch_fred_series: what one requests.get can do.   *)
(***************************************************************************)
\* HTTP statuses the server answers with.
Statuses == {200, 400, 401, 404, 429, 503}

\* Exceptions requests.get raises, as the set of classes each is an
\* instance of (requests.exceptions hierarchy).
Timeout == {"Timeout", "RequestException"}
ConnectionError == {"ConnectionError", "RequestException"}
ConnectTimeout == {"ConnectTimeout", "ConnectionError", "Timeout", "RequestException"}
TooManyRedirects == {"TooManyRedirects", "RequestException"}
TransportExceptions == {Timeout, ConnectionError, ConnectTimeout, TooManyRedirects}

\* What resp.json() raises on a body that is not JSON: requests >= 2.27
\* raises requests.exceptions.JSONDecodeError, a RequestException and a
\* json.JSONDecodeError at once; older versions raise json.JSONDecodeError.
JsonError(modern) ==
    IF modern THEN {"JSONDecodeError", "InvalidJSONError", "RequestException", "ValueError"}
    ELSE {"JSONDecodeError", "ValueError"}

\* data.get on a JSON document that is not an object.
AttributeError == {"AttributeError"}

\* Value strings of an observation, as character tuples.
ValueStrings ==
    { <<>>, <<".">>, <<"N", "A">>,
      <<"3", ".", "7">>, <<"4">>, <<"5", ".", "1", "2">>, <<"7", ".", "0", "0", "4">> }

Dates == {"2024-05-01", ""}

\* First observation records: value and date keys are optional.
Observations ==
    [value : {None} \cup {Some(s) : s \in ValueStrings},
     date : {None} \cup {Some(d) : d \in Dates}]

\* Parsed JSON objects: the observations list, absent or of length 0 or 1
\* (the request asks for limit=1).
Documents ==
    {None, Some(<<>>)} \cup {Some(<<o>>) : o \in Observations}

(***************************************************************************)
(* Trace entries and error messages.                                       *)
(***************************************************************************)
\* A request records what came back: the kind of outcome, the HTTP status
\* (0: none), the classes of the exception requests.get raised ({}: none)
\* and the parsed document (None: none).  A sleep records its seconds.
GetEv(kind, status, exc, doc) ==
    [op |-> "get", kind |-> kind, n |-> status, exc |-> exc, doc |-> doc]
SleepEv(secs) ==
    [op |-> "sleep", kind |-> "sleep", n |-> secs, exc |-> {}, doc |-> None]

\* An error message: its fixed text, the HTTP status or value string
\* interpolated into it, and the "(attempt a/n)" annotation (0/0: none).
Msg(text) == [text |-> text, code |-> 0, detail |-> <<>>, attempt |-> 0, of |-> 0]
MsgAt(text, code, a, n) ==
    [text |-> text, code |-> code, detail |-> <<>>, attempt |-> a, of |-> n]
MsgDetail(text, s) ==
    [text |-> text, code |-> 0, detail |-> s, attempt |-> 0, of |-> 0]

(***************************************************************************)
(* fetch_fred_series (lines 61-141).                                       *)
(***************************************************************************)
\* line 66: if not api_key
\* variant: only None counts as not configured
NotConfiguredNoneOnly(key) == key = None

NotConfigured(key) == ~Truthy(key)

\* lines 89, 95, 122, 128, 136: attempt < max_retries - 1
\* variants: never retrying, and retrying after the final attempt
HasAttemptsLeftNever(a, n) == FALSE

HasAttemptsLeftOffByOne(a, n) == a < n

HasAttemptsLeft(a, n) == a < n - 1

\* line 95: 500 <= resp.status_code < 600
\* variant: 4xx statuses are retried as well
IsServerErrorAny4xx(status) == 400 <= status /\ status < 600

IsServerError(status) == 500 <= status /\ status < 600

\* lines 90, 96/123/129, 137: the sleeps
BackoffRateLimited(a) == 2^(a + 2)
Backoff(a) == 2^a
BackoffParse(a) == 1

\* The except clause (lines 120-139) that handles an exception raised in
\* the try body: the first whose class the exception is an instance of.
ExceptClause(exc) ==
    IF "Timeout" \in exc THEN "Timeout"
    ELSE IF "ConnectionError" \in exc THEN "ConnectionError"
    ELSE IF "RequestException" \in exc THEN "RequestException"
    ELSE IF "JSONDecodeError" \in exc \/ "ValueError" \in exc THEN "JSONDecodeError"
    ELSE "uncaught"

\* variant: the error is dropped from the result
ReturnDropsError(tr, v, d, e) ==
    /\ trace' = tr
    /\ value' = v
    /\ obs_date' = d
    /\ error' = None
    /\ pc' = "fetched"
    /\ UNCHANGED attempt

\* return value, date, error
Return(tr, v, d, e) ==
    /\ trace' = tr
    /\ value' = v
    /\ obs_date' = d
    /\ error' = e
    /\ pc' = "fetched"
    /\ UNCHANGED attempt

\* time.sleep(secs); continue
SleepContinue(tr, secs) ==
    /\ trace' = Append(tr, SleepEv(secs))
    /\ attempt' = attempt + 1
    /\ pc' = "loop"
    /\ UNCHANGED <<value, obs_date, error>>

\* an exception no clause handles leaves the function
Propagate(tr) ==
    /\ trace' = tr
    /\ pc' = "raised"
    /\ UNCHANGED <<attempt, value, obs_date, error>>

\* the except clauses, lines 120-139
HandleException(tr, exc) ==
    LET clause == ExceptClause(exc) IN
    CASE clause = "Timeout" ->
           IF HasAttemptsLeft(attempt, max_retries)
           THEN SleepContinue(tr, Backoff(attempt))
           ELSE Return(tr, None, None,
                       Some(MsgAt("FRED API timeout", 0, attempt + 1, max_retries)))
      [] clause = "ConnectionError" ->
           IF HasAttemptsLeft(attempt, max_retries)
           THEN SleepContinue(tr, Backoff(attempt))
           ELSE Return(tr, None, None,
                       Some(MsgAt("FRED API: Connection error", 0, attempt + 1, max_retries)))
      [] clause = "RequestException" ->
           Return(tr, None, None, Some(Msg("FRED API error")))
      [] clause = "JSONDecodeError" ->
           IF HasAttemptsLeft(attempt, max_retries)
           THEN SleepContinue(tr, BackoffParse(attempt))
           ELSE Return(tr, None, None,
                       Some(MsgAt("Invalid JSON from FRED", 0, attempt + 1, max_retries)))
      [] OTHER -> Propagate(tr)

FetchFrame ==
    UNCHANGED <<modern_requests, api_key, max_retries, thresholds, signal, runVars>>

\* lines 66-76: the credential check
FetchEntry ==
    /\ pc = "fetch_entry"
    /\ IF NotConfigured(api_key)
       THEN Return(trace, None, None,
                   Some(Msg("FRED API key not configured (set FRED_API_KEY env var)")))
       ELSE /\ pc' = "loop_init"
            /\ UNCHANGED <<attempt, trace, value, obs_date, error>>
    /\ FetchFrame

\* line 78: for attempt in range(max_retries), first evaluation
LoopInit ==
    /\ pc = "loop_init"
    /\ attempt' = 0
    /\ pc' = "loop"
    /\ UNCHANGED <<trace, value, obs_date, error>>
    /\ FetchFrame

\* line 78 and line 141: the loop head; falling out of the loop returns
LoopHead ==
    /\ pc = "loop"
    /\ IF attempt < max_retries
       THEN /\ pc' = "request"
            /\ UNCHANGED <<attempt, trace, value, obs_date, error>>
       ELSE Return(trace, None, None, Some(Msg("Max retries exceeded")))
    /\ FetchFrame

\* line 80 raising: the transport fails
GetRaises ==
    /\ pc = "request"
    /\ \E exc \in TransportExceptions :
          HandleException(Append(trace, GetEv("exception", 0, exc, None)), exc)
    /\ FetchFrame

\* lines 83-84
Resp400 ==
    /\ pc = "request"
    /\ Return(Append(trace, GetEv("response", 400, {}, None)), None, None,
              Some(Msg("FRED API: Invalid request (check series_id)")))
    /\ FetchFrame

\* lines 85-86
Resp401 ==
    /\ pc = "request"
    /\ Return(Append(trace, GetEv("response", 401, {}, None)), None, None,
              Some(Msg("FRED API: Invalid API key (set FRED_API_KEY)")))
    /\ FetchFrame

\* lines 87-92
Resp429 ==
    /\ pc = "request"
    /\ LET tr == Append(trace, GetEv("response", 429, {}, None)) IN
       IF HasAttemptsLeft(attempt, max_retries)
       THEN SleepContinue(tr, BackoffRateLimited(attempt))
       ELSE Return(tr, None, None,
                   Some(MsgAt("FRED API: Rate limited", 0, attempt + 1, max_retries)))
    /\ FetchFrame

\* lines 93-98
RespHttpError ==
    /\ pc = "request"
    /\ \E status \in Statuses :
          /\ status >= 400
          /\ status \notin {400, 401, 429}
          /\ LET tr == Append(trace, GetEv("response", status, {}, None)) IN
             IF IsServerError(status) /\ HasAttemptsLeft(attempt, max_retries)
             THEN SleepContinue(tr, Backoff(attempt))
             ELSE Return(tr, None, None,
                         Some(MsgAt("FRED API: HTTP", status, attempt + 1, max_retries)))
    /\ FetchFrame

\* lines 100-101 raising: the body is not JSON
RespMalformed ==
    /\ pc = "request"
    /\ \E status \in Statuses :
          /\ status < 400
          /\ HandleException(Append(trace, GetEv("malformed", status, {}, None)),
                             JsonError(modern_requests))
    /\ FetchFrame

\* line 103 raising: the body is JSON but no object
RespNotObject ==
    /\ pc = "request"
    /\ \E status \in Statuses :
          /\ status < 400
          /\ HandleException(Append(trace, GetEv("not_object", status, {}, None)), AttributeError)
    /\ FetchFrame

\* variant: an empty observations list or an NA value is retried like a
\* transient error
RespDocumentRetriesAbsent ==
    /\ pc = "request"
    /\ \E status \in Statuses, doc \in Documents :
          /\ status < 400
          /\ LET tr == Append(trace, GetEv("document", status, {}, Some(doc)))
                 obs == IF doc = None THEN <<>> ELSE doc[1]
             IN
             IF obs = <<>>
             THEN IF HasAttemptsLeft(attempt, max_retries)
                  THEN SleepContinue(tr, Backoff(attempt))
                  ELSE Return(tr, None, None,
                              Some(Msg("No observations returned from FRED")))
             ELSE LET latest == obs[1]
                      value_str == latest.value
                  IN
                  IF value_str = Some(<<".">>) \/ value_str = None \/ value_str = Some(<<>>)
                  THEN IF HasAttemptsLeft(attempt, max_retries)
                       THEN SleepContinue(tr, Backoff(attempt))
                       ELSE Return(tr, None, None,
                                   Some(Msg("Latest observation is missing/NA")))
                  ELSE IF float(value_str[1]).ok
                  THEN Return(tr, Some(float(value_str[1]).val),
                              IF latest.date = None THEN Some("") ELSE latest.date, None)
                  ELSE Return(tr, None, None,
                              Some(MsgDetail("Could not parse value", value_str[1])))
    /\ FetchFrame

\* lines 100-118: the body is a JSON object
RespDocument ==
    /\ pc = "request"
    /\ \E status \in Statuses, doc \in Documents :
          /\ status < 400
          /\ LET tr == Append(trace, GetEv("document", status, {}, Some(doc)))
                 obs == IF doc = None THEN <<>> ELSE doc[1]
             IN
             IF obs = <<>>
             THEN Return(tr, None, None, Some(Msg("No observations returned from FRED")))
             ELSE LET latest == obs[1]
                      value_str == latest.value
                  IN
                  IF value_str = Some(<<".">>) \/ value_str = None \/ value_str = Some(<<>>)
                  THEN Return(tr, None, None, Some(Msg("Latest observation is missing/NA")))
                  ELSE IF float(value_str[1]).ok
                  THEN Return(tr, Some(float(value_str[1]).val),
                              IF latest.date = None THEN Some("") ELSE latest.date, None)
                  ELSE Return(tr, None, None,
                              Some(MsgDetail("Could not parse value", value_str[1])))
    /\ FetchFrame

FetchNext ==
    \/ FetchEntry
    \/ LoopInit
    \/ LoopHead
    \/ GetRaises
    \/ Resp400
    \/ Resp401
    \/ Resp429
    \/ RespHttpError
    \/ RespMalformed
    \/ RespNotObject
    \/ RespDocument

(***************************************************************************)
(* The files of the data directory.                                        *)
(***************************************************************************)
\* lines 217-218; a path is the tuple of the pieces it is joined from
latest_path == <<"latest.json">>
\* variant: the document is written in place
temp_path_is_latest == latest_path

temp_path == latest_path \o <<".tmp">>

Paths == {latest_path, temp_path}

\* A file holds the first `written` chunks of the serialization of `doc`.
File(doc, written) == [doc |-> doc, written |-> written]
IsComplete(file) == file # None /\ file[1].written = DocChunks
Exists(path) == fs[path] # None

\* timestamps: an observation date, or a reading of the clock
DateStamp(d) == [date |-> d, at |-> 0]
ClockStamp(t) == [date |-> "", at |-> t]

\* line 51-52
now_utc == ClockStamp(clock)

\* the snapshot an earlier run published
OldSnapshot ==
    [project |-> "SolonInsight", mode |-> "daily", timestamp |-> ClockStamp(0),
     indicators |-> <<>>, meta |-> [version |-> 1, generated_by |-> "dashboard.py"]]

\* no second run: the state of the model of two concurrent runs
NoSecondRun ==
    /\ procs = <<>>
    /\ dir = <<>>
    /\ inodes = <<>>

\* the state of the part of the program a direct call does not run
RunIdle ==
    /\ NoSecondRun
    /\ unrate_cfg = None
    /\ other_indicators = {}
    /\ mode = "daily"
    /\ clock = 1
    /\ indicators = <<>>
    /\ payload = None
    /\ fs = [p \in Paths |-> None]
    /\ prior = None
    /\ renamed = FALSE
    /\ failed_step = "none"
    /\ exit_status = None

(***************************************************************************)
(* A direct call fetch_fred_series(series_id, api_key, max_retries=n).     *)
(***************************************************************************)
ApiKeys == {None, Some(""), Some("key")}

FetchInit ==
    /\ pc = "fetch_entry"
    /\ modern_requests \in BOOLEAN
    /\ api_key \in ApiKeys
    /\ max_retries \in -1..MaxRetriesBound
    /\ attempt = 0
    /\ trace = <<>>
    /\ value = None
    /\ obs_date = None
    /\ error = None
    /\ thresholds = <<>>
    /\ signal = "unset"
    /\ RunIdle

SpecFetch == FetchInit /\ [][FetchNext]_vars

(***************************************************************************)
(* A direct call get_signal_for_value(value, thresholds).                  *)
(***************************************************************************)
\* The number a numeral stands for.
Num(s) == float(s).val

SignalValues ==
    { Num(<<"0">>), Num(<<"3", ".", "7">>), Num(<<"4">>), Num(<<"4", ".", "0", "0", "1">>),
      Num(<<"5", ".", "1", "2">>), Num(<<"6">>), Num(<<"7", ".", "0", "0", "4">>) }

ThresholdValues == { Num(<<"3">>), Num(<<"4">>), Num(<<"6">>) }

ThresholdKeys == {"green_max", "yellow_max"}

ThresholdMaps == UNION { [D -> ThresholdValues] : D \in SUBSET ThresholdKeys }

SignalInit ==
    /\ pc = "signal_entry"
    /\ value \in {None} \cup {Some(v) : v \in SignalValues}
    /\ thresholds \in ThresholdMaps
    /\ signal = "unset"
    /\ modern_requests = FALSE
    /\ api_key = None
    /\ max_retries = 0
    /\ attempt = 0
    /\ trace = <<>>
    /\ obs_date = None
    /\ error = None
    /\ RunIdle

\* lines 143-151
SignalCall ==
    /\ pc = "signal_entry"
    /\ signal' = get_signal_for_value(value, thresholds)
    /\ pc' = "signal_done"
    /\ UNCHANGED <<modern_requests, api_key, max_retries, attempt, trace,
                   value, obs_date, error, thresholds, runVars>>

SignalNext == SignalCall

SpecSignal == SignalInit /\ [][SignalNext]_vars

(***************************************************************************)
(* run_dashboard (lines 153-235).                                          *)
(***************************************************************************)
\* line 182: max_retries=2
RunMaxRetries == 2

\* round(value, ndigits) of a number in units of 10^-FracDigits (ties,
\* which no value string of the model produces, go to the even neighbour)
round(v, ndigits) ==
    LET q == 10^(FracDigits - ndigits)
        r == v % q
        down == v - r
    IN IF 2 * r < q THEN down
       ELSE IF 2 * r > q THEN down + q
       ELSE IF (down \div q) % 2 = 0 THEN down ELSE down + q

\* a dict without one of its keys
Drop(d, key) == [k \in (DOMAIN d) \ {key} |-> d[k]]

FullCfg ==
    [label |-> "Unemployment Rate", series_id |-> "UNRATE", source |-> "FRED",
     thresholds |-> [green_max |-> Num(<<"4">>), yellow_max |-> Num(<<"6">>)],
     notes |-> "static note"]

\* cfg["indicators"]["unrate"] as config.yaml may give it
UnrateConfigs ==
    { None,
      Some(FullCfg),
      Some(Drop(Drop(FullCfg, "thresholds"), "notes")),
      Some(Drop(FullCfg, "label")),
      Some(Drop(FullCfg, "series_id")),
      Some(Drop(FullCfg, "source")) }

\* keys config.yaml may declare under indicators besides unrate
OtherIndicatorKeys == {"cpi"}

Modes == {"daily", "monthly"}

\* variant: every entry is stamped with the clock
IndicatorEntryClockStamped(cfg, v, d, e, sig) ==
    [key |-> "unrate",
     label |-> cfg["label"],
     source |-> cfg["source"],
     timestamp |-> now_utc,
     value |-> IF v # None THEN Some(round(v[1], 2)) ELSE None,
     unit |-> "%",
     signal |-> sig,
     notes |-> IF e # None THEN e[1]
               ELSE Msg(IF "notes" \in DOMAIN cfg THEN cfg["notes"] ELSE "")]

\* lines 192-201
IndicatorEntry(cfg, v, d, e, sig) ==
    [key |-> "unrate",
     label |-> cfg["label"],
     source |-> cfg["source"],
     timestamp |-> IF Truthy(d) THEN DateStamp(d[1]) ELSE now_utc,
     value |-> IF v # None THEN Some(round(v[1], 2)) ELSE None,
     unit |-> "%",
     signal |-> sig,
     notes |-> IF e # None THEN e[1]
               ELSE Msg(IF "notes" \in DOMAIN cfg THEN cfg["notes"] ELSE "")]

\* lines 205-214
Payload(m, inds) ==
    [project |-> "SolonInsight", mode |-> m, timestamp |-> now_utc,
     indicators |-> inds, meta |-> [version |-> 1, generated_by |-> "dashboard.py"]]

\* an exception nothing catches ends the process with a traceback, status 1
Uncaught ==
    /\ pc' = "aborted"
    /\ exit_status' = Some(1)

\* an exception raised in the try block (lines 220-230) goes to line 231
Fail(step) ==
    /\ pc' = "except"
    /\ failed_step' = step

RunFrame ==
    UNCHANGED <<modern_requests, api_key, thresholds, unrate_cfg, other_indicators, mode,
                prior, concVars>>

\* lines 175-183: the indicator's config, and the call of fetch_fred_series
CheckIndicator ==
    /\ pc = "run_entry"
    /\ IF unrate_cfg = None
       THEN /\ pc' = "build_payload"
            /\ UNCHANGED <<max_retries, exit_status>>
       ELSE IF "label" \notin DOMAIN unrate_cfg[1] \/ "series_id" \notin DOMAIN unrate_cfg[1]
       THEN /\ Uncaught
            /\ UNCHANGED max_retries
       ELSE /\ pc' = "fetch_entry"
            /\ max_retries' = RunMaxRetries
            /\ UNCHANGED exit_status
    /\ UNCHANGED <<fetchVars, signal, clock, indicators, payload, fs, renamed, failed_step>>
    /\ RunFrame

\* line 178: an exception leaving fetch_fred_series leaves run_dashboard
FetchRaised ==
    /\ pc = "raised"
    /\ Uncaught
    /\ UNCHANGED <<max_retries, fetchVars, signal, clock, indicators, payload, fs,
                   renamed, failed_step>>
    /\ RunFrame

\* lines 185-202: classify, build the entry, append it
BuildEntry ==
    /\ pc = "fetched"
    /\ LET cfg == unrate_cfg[1]
           sig == get_signal_for_value(
                      value, IF "thresholds" \in DOMAIN cfg THEN cfg["thresholds"] ELSE <<>>)
       IN
       /\ signal' = sig
       /\ IF "source" \notin DOMAIN cfg
          THEN /\ Uncaught
               /\ UNCHANGED indicators
          ELSE /\ indicators' = Append(indicators,
                                       IndicatorEntry(cfg, value, obs_date, error, sig))
               /\ pc' = "build_payload"
               /\ UNCHANGED exit_status
    /\ UNCHANGED <<max_retries, fetchVars, clock, payload, fs, renamed, failed_step>>
    /\ RunFrame

\* the clock advancing between the readings of lines 196 and 208
Tick ==
    /\ pc = "build_payload"
    /\ clock < MaxClock
    /\ clock' = clock + 1
    /\ UNCHANGED <<pc, max_retries, fetchVars, signal, indicators, payload, fs,
                   renamed, failed_step, exit_status>>
    /\ RunFrame

\* lines 205-218
BuildPayload ==
    /\ pc = "build_payload"
    /\ payload' = Some(Payload(mode, indicators))
    /\ pc' = "open_temp"
    /\ UNCHANGED <<max_retries, fetchVars, signal, clock, indicators, fs, renamed,
                   failed_step, exit_status>>
    /\ RunFrame

\* line 221: open(temp_path, "w") creates or truncates the file
OpenTemp ==
    /\ pc = "open_temp"
    /\ \E ok \in BOOLEAN :
          IF ok
          THEN /\ fs' = [fs EXCEPT ![temp_path] = Some(File(payload[1], 0))]
               /\ pc' = "dump"
               /\ UNCHANGED failed_step
          ELSE /\ Fail("open")
               /\ UNCHANGED fs
    /\ UNCHANGED <<max_retries, fetchVars, signal, clock, indicators, payload, renamed,
                   exit_status>>
    /\ RunFrame

\* line 222: one more chunk of the document reaches the file, or the
\* write fails and the with statement closes the file
DumpChunk ==
    /\ pc = "dump"
    /\ fs[temp_path][1].written < DocChunks
    /\ \E ok \in BOOLEAN :
          IF ok
          THEN /\ fs' = [fs EXCEPT ![temp_path] =
                            Some(File(payload[1], fs[temp_path][1].written + 1))]
               /\ UNCHANGED <<pc, failed_step>>
          ELSE /\ Fail("write")
               /\ UNCHANGED fs
    /\ UNCHANGED <<max_retries, fetchVars, signal, clock, indicators, payload, renamed,
                   exit_status>>
    /\ RunFrame

\* lines 221-222: leaving the with statement closes the file
CloseTemp ==
    /\ pc = "dump"
    /\ fs[temp_path][1].written = DocChunks
    /\ \E ok \in BOOLEAN :
          IF ok
          THEN /\ pc' = "replace"
               /\ UNCHANGED failed_step
          ELSE Fail("close")
    /\ UNCHANGED <<max_retries, fetchVars, signal, clock, indicators, payload, fs,
                   renamed, exit_status>>
    /\ RunFrame

\* lines 225-226: if os.path.exists(latest_path): os.remove(latest_path)
RemoveDest ==
    /\ pc = "replace"
    /\ IF Exists(latest_path)
       THEN \E ok \in BOOLEAN :
               IF ok
               THEN /\ fs' = [fs EXCEPT ![latest_path] = None]
                    /\ pc' = "rename"
                    /\ UNCHANGED failed_step
               ELSE /\ Fail("remove")
                    /\ UNCHANGED fs
       ELSE /\ pc' = "rename"
            /\ UNCHANGED <<fs, failed_step>>
    /\ UNCHANGED <<max_retries, fetchVars, signal, clock, indicators, payload, renamed,
                   exit_status>>
    /\ RunFrame

\* lines 227-230: os.rename(temp_path, latest_path)
Rename ==
    /\ pc = "rename"
    /\ \E ok \in BOOLEAN :
          IF ok
          THEN /\ fs' = [p \in Paths |-> IF p = latest_path THEN fs[temp_path] ELSE None]
               /\ renamed' = TRUE
               /\ pc' = "done"
               /\ exit_status' = Some(0)
               /\ UNCHANGED failed_step
          ELSE /\ Fail("rename")
               /\ UNCHANGED <<fs, renamed, exit_status>>
    /\ UNCHANGED <<max_retries, fetchVars, signal, clock, indicators, payload>>
    /\ RunFrame

\* variant: the handler exits without removing the temporary file
ExceptKeepsTemp ==
    /\ pc = "except"
    /\ pc' = "exited"
    /\ exit_status' = Some(1)
    /\ UNCHANGED <<max_retries, fetchVars, signal, clock, indicators, payload, fs,
                   renamed, failed_step>>
    /\ RunFrame

\* lines 231-235: remove the temporary file if it exists, exit 1; when the
\* removal raises, the exception leaves the handler
Except ==
    /\ pc = "except"
    /\ IF Exists(temp_path)
       THEN \E ok \in BOOLEAN :
               IF ok
               THEN /\ fs' = [fs EXCEPT ![temp_path] = None]
                    /\ pc' = "exited"
                    /\ exit_status' = Some(1)
               ELSE /\ Uncaught
                    /\ UNCHANGED fs
       ELSE /\ pc' = "exited"
            /\ exit_status' = Some(1)
            /\ UNCHANGED fs
    /\ UNCHANGED <<max_retries, fetchVars, signal, clock, indicators, payload,
                   renamed, failed_step>>
    /\ RunFrame

TerminalPcs == {"done", "exited", "aborted", "killed"}

\* the process is interrupted (killed, power lost) wherever it is
Kill ==
    /\ pc \notin TerminalPcs
    /\ pc' = "killed"
    /\ exit_status' = Some(137)
    /\ UNCHANGED <<max_retries, fetchVars, signal, clock, indicators, payload, fs,
                   renamed, failed_step>>
    /\ RunFrame

Init ==
    /\ pc = "run_entry"
    /\ modern_requests \in BOOLEAN
    /\ api_key \in ApiKeys
    /\ max_retries = 0
    /\ attempt = 0
    /\ trace = <<>>
    /\ value = None
    /\ obs_date = None
    /\ error = None
    /\ thresholds = <<>>
    /\ signal = "unset"
    /\ unrate_cfg \in UnrateConfigs
    /\ other_indicators \in SUBSET OtherIndicatorKeys
    /\ mode \in Modes
    /\ clock = 1
    /\ indicators = <<>>
    /\ payload = None
    /\ \E dest \in {None, Some(File(OldSnapshot, DocChunks))},
          temp \in {None, Some(File(OldSnapshot, 1))} :
          /\ fs = [p \in Paths |-> IF p = latest_path THEN dest ELSE temp]
          /\ prior = dest
    /\ renamed = FALSE
    /\ failed_step = "none"
    /\ exit_status = None
    /\ NoSecondRun

Next ==
    \/ CheckIndicator
    \/ FetchNext
    \/ FetchRaised
    \/ BuildEntry
    \/ Tick
    \/ BuildPayload
    \/ OpenTemp
    \/ DumpChunk
    \/ CloseTemp
    \/ RemoveDest
    \/ Rename
    \/ Except
    \/ Kill

Spec == Init /\ [][Next]_vars

(***************************************************************************)
(* Two runs of run_dashboard writing the same destination (lines 216-235). *)
(* Both have built their payload and differ from here on only in the       *)
(* order of their file-system calls.  Files are inodes the directory       *)
(* names, as on POSIX: an open file stays writable after its name is       *)
(* renamed or removed, and each call is atomic.                            *)
(***************************************************************************)
Runs == {"A", "B"}
Other(r) == CHOOSE q \in Runs : q # r

\* an inode is named after the run that created it; "old" is the snapshot
\* an earlier run published and "stale" a temporary file one left behind
NoInode == "none"
InodeIds == Runs \cup {"old", "stale"}

\* a file is the sequence of its chunks, each marked with its writer
Chunks(w, n) == [i \in 1..n |-> w]
IsWhole(data) == \E w \in Runs \cup {"old"} : data = Chunks(w, DocChunks)

\* writing one chunk at position off of a file (a position past the end
\* leaves a hole)
WriteAt(data, off, w) ==
    [i \in 1..(IF off + 1 > Len(data) THEN off + 1 ELSE Len(data)) |->
        IF i = off + 1 THEN w
        ELSE IF i <= Len(data) THEN data[i]
        ELSE "hole"]

Proc(p, fd, off, failed) == [pc |-> p, fd |-> fd, off |-> off, failed |-> failed]

TwoRunsFrame ==
    UNCHANGED <<pc, modern_requests, api_key, max_retries, fetchVars, thresholds, signal,
                unrate_cfg, other_indicators, mode, clock, indicators, payload, fs, prior,
                renamed, failed_step, exit_status>>

\* variant: the file is opened without truncating it
OpenTempKeepsContent(r) ==
    /\ procs[r].pc = "open_temp"
    /\ IF dir[temp_path] # NoInode
       THEN /\ inodes' = [inodes EXCEPT ![dir[temp_path]].openers = @ \cup {r}]
            /\ procs' = [procs EXCEPT ![r] = Proc("dump", dir[temp_path], 0, "none")]
            /\ UNCHANGED dir
       ELSE /\ dir' = [dir EXCEPT ![temp_path] = r]
            /\ inodes' = [inodes EXCEPT ![r] = [data |-> <<>>, openers |-> {r}]]
            /\ procs' = [procs EXCEPT ![r] = Proc("dump", r, 0, "none")]
    /\ TwoRunsFrame

\* line 221: open(temp_path, "w") truncates the file of that name, or
\* creates one
OpenTempOf(r) ==
    /\ procs[r].pc = "open_temp"
    /\ IF dir[temp_path] # NoInode
       THEN /\ inodes' = [inodes EXCEPT ![dir[temp_path]] =
                             [data |-> <<>>, openers |-> @.openers \cup {r}]]
            /\ procs' = [procs EXCEPT ![r] = Proc("dump", dir[temp_path], 0, "none")]
            /\ UNCHANGED dir
       ELSE /\ dir' = [dir EXCEPT ![temp_path] = r]
            /\ inodes' = [inodes EXCEPT ![r] = [data |-> <<>>, openers |-> {r}]]
            /\ procs' = [procs EXCEPT ![r] = Proc("dump", r, 0, "none")]
    /\ TwoRunsFrame

\* line 222: json.dump writes the next chunk at the run's file position
DumpChunkOf(r) ==
    /\ procs[r].pc = "dump"
    /\ procs[r].off < DocChunks
    /\ inodes' = [inodes EXCEPT ![procs[r].fd].data = WriteAt(@, procs[r].off, r)]
    /\ procs' = [procs EXCEPT ![r].off = @ + 1]
    /\ UNCHANGED dir
    /\ TwoRunsFrame

\* lines 221-222: leaving the with statement closes the file
CloseTempOf(r) ==
    /\ procs[r].pc = "dump"
    /\ procs[r].off = DocChunks
    /\ procs' = [procs EXCEPT ![r].pc = "replace"]
    /\ UNCHANGED <<dir, inodes>>
    /\ TwoRunsFrame

\* line 225: if os.path.exists(latest_path)
DestExistsOf(r) ==
    /\ procs[r].pc = "replace"
    /\ procs' = [procs EXCEPT ![r].pc =
                    IF dir[latest_path] # NoInode THEN "remove" ELSE "rename"]
    /\ UNCHANGED <<dir, inodes>>
    /\ TwoRunsFrame

\* line 226: os.remove(latest_path) raises when the name is gone
RemoveDestOf(r) ==
    /\ procs[r].pc = "remove"
    /\ IF dir[latest_path] # NoInode
       THEN /\ dir' = [dir EXCEPT ![latest_path] = NoInode]
            /\ procs' = [procs EXCEPT ![r].pc = "rename"]
       ELSE /\ procs' = [procs EXCEPT ![r].pc = "except", ![r].failed = "remove"]
            /\ UNCHANGED dir
    /\ UNCHANGED inodes
    /\ TwoRunsFrame

\* line 227: os.rename(temp_path, latest_path) raises when the temporary
\* name is gone
RenameOf(r) ==
    /\ procs[r].pc = "rename"
    /\ IF dir[temp_path] # NoInode
       THEN /\ dir' = [p \in Paths |-> IF p = latest_path THEN dir[temp_path] ELSE NoInode]
            /\ procs' = [procs EXCEPT ![r].pc = "done"]
       ELSE /\ procs' = [procs EXCEPT ![r].pc = "except", ![r].failed = "rename"]
            /\ UNCHANGED dir
    /\ UNCHANGED inodes
    /\ TwoRunsFrame

\* line 233: if os.path.exists(temp_path)
TempExistsOf(r) ==
    /\ procs[r].pc = "except"
    /\ procs' = [procs EXCEPT ![r].pc =
                    IF dir[temp_path] # NoInode THEN "cleanup" ELSE "exited"]
    /\ UNCHANGED <<dir, inodes>>
    /\ TwoRunsFrame

\* lines 234-235: os.remove(temp_path), sys.exit(1); when the name is gone
\* the removal raises out of the handler
CleanupOf(r) ==
    /\ procs[r].pc = "cleanup"
    /\ IF dir[temp_path] # NoInode
       THEN /\ dir' = [dir EXCEPT ![temp_path] = NoInode]
            /\ procs' = [procs EXCEPT ![r].pc = "exited"]
       ELSE /\ procs' = [procs EXCEPT ![r].pc = "aborted", ![r].failed = "cleanup"]
            /\ UNCHANGED dir
    /\ UNCHANGED inodes
    /\ TwoRunsFrame

TwoRunsInit ==
    /\ pc = "two_runs"
    /\ modern_requests = FALSE
    /\ api_key = None
    /\ max_retries = 0
    /\ attempt = 0
    /\ trace = <<>>
    /\ value = None
    /\ obs_date = None
    /\ error = None
    /\ thresholds = <<>>
    /\ signal = "unset"
    /\ unrate_cfg = None
    /\ other_indicators = {}
    /\ mode = "daily"
    /\ clock = 1
    /\ indicators = <<>>
    /\ payload = None
    /\ fs = [p \in Paths |-> None]
    /\ prior = None
    /\ renamed = FALSE
    /\ failed_step = "none"
    /\ exit_status = None
    /\ procs = [r \in Runs |-> Proc("open_temp", NoInode, 0, "none")]
    /\ \E dest \in {NoInode, "old"}, temp \in {NoInode, "stale"} :
          dir = [p \in Paths |-> IF p = latest_path THEN dest ELSE temp]
    /\ inodes = [i \in InodeIds |->
                    CASE i = "old" -> [data |-> Chunks("old", DocChunks), openers |-> {}]
                      [] i = "stale" -> [data |-> Chunks("old", DocChunks + 1), openers |-> {}]
                      [] OTHER -> [data |-> <<>>, openers |-> {}]]

TwoRunsNext ==
    \E r \in Runs :
        \/ OpenTempOf(r)
        \/ DumpChunkOf(r)
        \/ CloseTempOf(r)
        \/ DestExistsOf(r)
        \/ RemoveDestOf(r)
        \/ RenameOf(r)
        \/ TempExistsOf(r)
        \/ CleanupOf(r)

SpecTwoRuns == TwoRunsInit /\ [][TwoRunsNext]_vars

(***************************************************************************)
(* Properties.                                                             *)
(***************************************************************************)
IsGet(e) == e.op = "get"
IsSleep(e) == e.op = "sleep"
Gets(tr) == SelectSeq(tr, IsGet)
Sleeps(tr) == SelectSeq(tr, IsSleep)

\* 0-based index of the attempt that issued the request at trace[i]
AttemptOf(tr, i) == Len(Gets(SubSeq(tr, 1, i))) - 1

\* C4: get_signal_for_value is total and equals the chain unknown / green /
\* yellow / red with a missing green_max or yellow_max acting as +infinity:
\* without yellow_max the result is never red, and with no thresholds
\* every present value is green.
C4_SignalIsReferenceChain ==
    pc = "signal_done" =>
        /\ signal \in {"unknown", "green", "yellow", "red"}
        /\ signal =
             IF value = None THEN "unknown"
             ELSE IF "green_max" \notin DOMAIN thresholds
                       \/ value[1] <= thresholds["green_max"] THEN "green"
             ELSE IF "yellow_max" \notin DOMAIN thresholds
                       \/ value[1] <= thresholds["yellow_max"] THEN "yellow"
             ELSE "red"
        /\ "yellow_max" \notin DOMAIN thresholds => signal # "red"
        /\ (DOMAIN thresholds = {} /\ value # None) => signal = "green"

C4_Witness ==
    /\ pc = "signal_done"
    /\ DOMAIN thresholds = {"green_max"}
    /\ value # None
    /\ value[1] > thresholds["green_max"]
    /\ signal = "yellow"

\* C5 as stated: with green_max = g present and no order assumed between g
\* and y, green iff v <= g, yellow iff g < v <= y, red iff v > y, unknown
\* iff v is absent (y absent acting as +infinity).
C5_IffAsStated ==
    (pc = "signal_done" /\ "green_max" \in DOMAIN thresholds) =>
        LET g == thresholds["green_max"]
            hasY == "yellow_max" \in DOMAIN thresholds
            present == value # None
        IN
        /\ signal = "unknown" <=> ~present
        /\ signal = "green" <=> (present /\ value[1] <= g)
        /\ signal = "yellow" <=>
             (present /\ g < value[1] /\ (hasY => value[1] <= thresholds["yellow_max"]))
        /\ signal = "red" <=>
             (present /\ hasY /\ value[1] > thresholds["yellow_max"])

\* C5 amended: as stated, except that red iff v > y and v > g (which is
\* v > y whenever g <= y).
C5_IffAmended ==
    (pc = "signal_done" /\ "green_max" \in DOMAIN thresholds) =>
        LET g == thresholds["green_max"]
            hasY == "yellow_max" \in DOMAIN thresholds
            present == value # None
        IN
        /\ signal = "unknown" <=> ~present
        /\ signal = "green" <=> (present /\ value[1] <= g)
        /\ signal = "yellow" <=>
             (present /\ g < value[1] /\ (hasY => value[1] <= thresholds["yellow_max"]))
        /\ signal = "red" <=>
             (present /\ hasY /\ value[1] > thresholds["yellow_max"] /\ value[1] > g)

C5_Witness ==
    /\ pc = "signal_done"
    /\ DOMAIN thresholds = ThresholdKeys
    /\ thresholds["yellow_max"] < thresholds["green_max"]
    /\ value # None
    /\ thresholds["yellow_max"] < value[1]
    /\ value[1] <= thresholds["green_max"]
    /\ signal = "green"

(***************************************************************************)
(* Properties of fetch_fred_series.                                        *)
(***************************************************************************)
Is5xx(e) == e.op = "get" /\ e.kind = "response" /\ 500 <= e.n /\ e.n < 600

\* the conditions C7 lists as retryable: 429, 5xx, timeout, connection error
IsRetryable(e) ==
    /\ e.op = "get"
    /\ \/ e.kind = "response" /\ e.n = 429
       \/ Is5xx(e)
       \/ e.kind = "exception" /\ ("Timeout" \in e.exc \/ "ConnectionError" \in e.exc)

\* C6: with a credential and a server that answers every request with a
\* 5xx status, a call with max_retries = n >= 1 issues exactly n requests,
\* sleeps exactly n-1 times, 2^i seconds after 0-based attempt i, and
\* returns an error and no value.
C6_AlwaysServerError ==
    ( /\ pc = "fetched"
      /\ Truthy(api_key)
      /\ max_retries >= 1
      /\ \A i \in 1..Len(trace) : trace[i].op = "get" => Is5xx(trace[i]) )
    =>
    /\ Len(Gets(trace)) = max_retries
    /\ Len(Sleeps(trace)) = max_retries - 1
    /\ Len(trace) = 2 * max_retries - 1
    /\ \A i \in 0..(max_retries - 1) :
          /\ trace[2 * i + 1].op = "get"
          /\ i < max_retries - 1 => trace[2 * i + 2] = SleepEv(2^i)
    /\ value = None
    /\ error # None

C6_Witness ==
    /\ pc = "fetched"
    /\ max_retries = 2
    /\ Len(trace) = 3
    /\ Is5xx(trace[1])
    /\ trace[2] = SleepEv(1)
    /\ Is5xx(trace[3])
    /\ value = None
    /\ error = Some(MsgAt("FRED API: HTTP", 503, 2, 2))

\* The number each numeral of ValueStrings stands for, written out.
Unit == 10^FracDigits

ExpectedNumber(s) ==
    CASE s = <<"3", ".", "7">> -> (37 * Unit) \div 10
      [] s = <<"4">> -> 4 * Unit
      [] s = <<"5", ".", "1", "2">> -> (512 * Unit) \div 100
      [] s = <<"7", ".", "0", "0", "4">> -> (7004 * Unit) \div 1000

NumericStrings ==
    { <<"3", ".", "7">>, <<"4">>, <<"5", ".", "1", "2">>, <<"7", ".", "0", "0", "4">> }

\* a 200 response whose observations list is non-empty and whose first
\* record has a parseable numeric value
IsGoodDocument(e) ==
    /\ e.op = "get"
    /\ e.kind = "document"
    /\ e.n = 200
    /\ e.doc # None
    /\ e.doc[1] # None
    /\ e.doc[1][1] # <<>>
    /\ e.doc[1][1][1].value # None
    /\ e.doc[1][1][1].value[1] \in NumericStrings

FirstRecord(e) == e.doc[1][1][1]

\* C7: when the first k < max_retries attempts each end in 429, 5xx, a
\* timeout or a connection error, the call goes on to attempt k+1, and when
\* that one returns 200 with a parseable first observation the call
\* returns (that value, that date, no error) after exactly k+1 requests;
\* 429 then 200 with "3.7" of "2024-05-01" returns (3.7, "2024-05-01",
\* None), green under {green_max: 4.0}.
C7_RetryThenSuccess ==
    /\ ( /\ pc = "fetched"
         /\ Truthy(api_key)
         /\ Len(Gets(trace)) < max_retries )
       => ~(\A i \in 1..Len(trace) : trace[i].op = "get" => IsRetryable(trace[i]))
    /\ \A n \in 1..Len(trace) :
          ( /\ IsGoodDocument(trace[n])
            /\ \A i \in 1..(n - 1) : trace[i].op = "get" => IsRetryable(trace[i]) )
          =>
          /\ n = Len(trace)
          /\ pc = "fetched"
          /\ value = Some(ExpectedNumber(FirstRecord(trace[n]).value[1]))
          /\ obs_date = (IF FirstRecord(trace[n]).date = None
                         THEN Some("") ELSE FirstRecord(trace[n]).date)
          /\ error = None
    /\ ( /\ Len(trace) = 3
         /\ trace[1].op = "get" /\ trace[1].kind = "response" /\ trace[1].n = 429
         /\ IsGoodDocument(trace[3])
         /\ FirstRecord(trace[3]) = [value |-> Some(<<"3", ".", "7">>),
                                     date |-> Some("2024-05-01")] )
       =>
       /\ value = Some((37 * Unit) \div 10)
       /\ obs_date = Some("2024-05-01")
       /\ error = None
       /\ get_signal_for_value(value, [green_max |-> 4 * Unit]) = "green"

C7_Witness ==
    /\ pc = "fetched"
    /\ max_retries = 2
    /\ Len(trace) = 3
    /\ trace[1].op = "get" /\ trace[1].kind = "response" /\ trace[1].n = 429
    /\ trace[2].op = "sleep"
    /\ IsGoodDocument(trace[3])
    /\ FirstRecord(trace[3]) = [value |-> Some(<<"3", ".", "7">>),
                                date |-> Some("2024-05-01")]
    /\ value = Some((37 * Unit) \div 10)
    /\ obs_date = Some("2024-05-01")
    /\ error = None

IsPermanent4xx(e) ==
    e.op = "get" /\ e.kind = "response" /\ 400 <= e.n /\ e.n < 500 /\ e.n # 429

\* C9: a response with status 400, 401 or any other 4xx but 429, on any
\* attempt and for any max_retries, ends the call at once: it is the last
\* entry of the trace (no further request, no sleep) and the call has
\* returned an error and no value.
C9_Permanent4xxStops ==
    \A i \in 1..Len(trace) :
        IsPermanent4xx(trace[i]) =>
            /\ i = Len(trace)
            /\ pc = "fetched"
            /\ value = None
            /\ obs_date = None
            /\ error # None

C9_Witness ==
    /\ pc = "fetched"
    /\ max_retries = 3
    /\ Len(trace) = 3
    /\ Is5xx(trace[1])
    /\ IsPermanent4xx(trace[3])
    /\ trace[3].n = 404
    /\ error = Some(MsgAt("FRED API: HTTP", 404, 2, 3))

IsMalformed2xx(e) ==
    e.op = "get" /\ e.kind = "malformed" /\ 200 <= e.n /\ e.n < 300

\* C10: a 2xx response whose body is not JSON is retryable: with attempts
\* left the call sleeps a flat 1 second and goes on; on the final attempt
\* it returns the "Invalid JSON" error; the generic request-error branch
\* never handles it.
C10_MalformedBodyRetried ==
    \A i \in 1..Len(trace) :
        IsMalformed2xx(trace[i]) =>
            IF AttemptOf(trace, i) < max_retries - 1
            THEN /\ i < Len(trace)
                 /\ trace[i + 1] = SleepEv(1)
            ELSE /\ i = Len(trace)
                 /\ pc = "fetched"
                 /\ value = None
                 /\ error = Some(MsgAt("Invalid JSON from FRED", 0,
                                       max_retries, max_retries))

(***************************************************************************)
(* Properties of run_dashboard.                                            *)
(***************************************************************************)
IsPartial(file) == file # None /\ file[1].written < DocChunks

\* C1: in every state of a run, a crash or failure at any point included,
\* the file at the published path is absent or a complete snapshot, the
\* previous one or the new one; a partial document exists only under the
\* temporary path.
C1_PublishedNeverPartial ==
    /\ \/ fs[latest_path] = None
       \/ fs[latest_path] = prior /\ IsComplete(prior)
       \/ payload # None /\ fs[latest_path] = Some(File(payload[1], DocChunks))
    /\ \A p \in Paths : IsPartial(fs[p]) => p = temp_path /\ p # latest_path

C1_Witness ==
    /\ pc = "killed"
    /\ payload # None
    /\ fs[temp_path] = Some(File(payload[1], 1))
    /\ IsPartial(fs[temp_path])
    /\ prior # None
    /\ fs[latest_path] = prior

\* C2: until os.rename has happened, wherever the write step is
\* interrupted, the destination path holds exactly what it held before the
\* run: a pre-existing destination is replaced in the rename step alone.
C2_DestUnchangedBeforeRename ==
    ~renamed => fs[latest_path] = prior

EndedPcs == {"done", "exited", "aborted"}

\* C3 as stated: if a step of the write fails, then when the process ends
\* the temporary file does not exist and the exit status is nonzero, and
\* the success path is not taken.
C3_FailureCleansUpAsStated ==
    (failed_step # "none" /\ pc \in EndedPcs) =>
        /\ fs[temp_path] = None
        /\ exit_status # None /\ exit_status # Some(0)
        /\ pc # "done"

\* C3 amended: if a step of the write fails, the process ends with a
\* nonzero exit status and not on the success path; the temporary file
\* does not exist then, unless the handler's own removal of it raised.
C3_FailureCleansUp ==
    (failed_step # "none" /\ pc \in EndedPcs) =>
        /\ exit_status # None /\ exit_status # Some(0)
        /\ pc # "done"
        /\ ~renamed
        /\ pc = "exited" => fs[temp_path] = None
        /\ pc = "aborted" => fs[temp_path] # None

C3_Witness ==
    /\ pc = "exited"
    /\ failed_step = "rename"
    /\ fs[temp_path] = None
    /\ exit_status = Some(1)

NotConfiguredMsg == Msg("FRED API key not configured (set FRED_API_KEY env var)")

\* positions of run_dashboard at which fetch_fred_series has returned
AfterFetchPcs ==
    {"fetched", "build_payload", "open_temp", "dump", "replace", "rename", "except",
     "done", "exited"}

\* C8: with the credential absent or empty (and the indicator configured
\* with its label, series id and source), fetch_fred_series issues no
\* request, takes no sleep and returns (None, None, the configuration
\* error); run_dashboard puts the indicator in the payload with value
\* null, signal "unknown" and the error text as notes, and unless a step of
\* the write fails it publishes that snapshot and exits with status 0.
C8_MissingCredential ==
    ( /\ ~Truthy(api_key)
      /\ unrate_cfg # None
      /\ {"label", "series_id", "source"} \subseteq DOMAIN unrate_cfg[1] )
    =>
    /\ trace = <<>>
    /\ pc \notin {"loop_init", "loop", "request", "raised"}
    /\ pc \in AfterFetchPcs =>
          /\ value = None
          /\ obs_date = None
          /\ error = Some(NotConfiguredMsg)
    /\ payload # None =>
          /\ Len(payload[1].indicators) = 1
          /\ payload[1].indicators[1].key = "unrate"
          /\ payload[1].indicators[1].value = None
          /\ payload[1].indicators[1].signal = "unknown"
          /\ payload[1].indicators[1].notes = NotConfiguredMsg
    /\ (failed_step = "none" /\ pc \in EndedPcs) =>
          /\ pc = "done"
          /\ exit_status = Some(0)
          /\ fs[latest_path] = Some(File(payload[1], DocChunks))
          /\ fs[temp_path] = None

C8_Witness ==
    /\ pc = "done"
    /\ api_key = Some("")
    /\ trace = <<>>
    /\ exit_status = Some(0)
    /\ IsComplete(fs[latest_path])
    /\ Len(fs[latest_path][1].doc.indicators) = 1
    /\ fs[latest_path][1].doc.indicators[1].signal = "unknown"
    /\ fs[latest_path][1].doc.indicators[1].value = None
    /\ fs[latest_path][1].doc.indicators[1].notes = NotConfiguredMsg

(***************************************************************************)
(* Properties of the response validation.                                  *)
(***************************************************************************)
IsDocument(e) == e.op = "get" /\ e.kind = "document" /\ e.doc # None

\* the observations list of a parsed document (missing key: empty)
ObservationsOf(e) == IF e.doc[1] = None THEN <<>> ELSE e.doc[1][1]

\* the error a parsed document without a usable value is answered with,
\* or None for a document that has one
DataAbsentError(e) ==
    IF ObservationsOf(e) = <<>>
    THEN Some(Msg("No observations returned from FRED"))
    ELSE LET v == ObservationsOf(e)[1].value IN
         IF v = None \/ v = Some(<<>>) \/ v = Some(<<".">>)
         THEN Some(Msg("Latest observation is missing/NA"))
         ELSE IF v[1] \notin NumericStrings
         THEN Some(MsgDetail("Could not parse value", v[1]))
         ELSE None

\* C11: a parsed response with an empty or missing observations list, or
\* whose first value is "." or empty, or is no number, ends the call on
\* that attempt with the matching error: no further request and no sleep
\* follow it, however many attempts remain.
C11_DataAbsentNotRetried ==
    \A i \in 1..Len(trace) :
        (IsDocument(trace[i]) /\ DataAbsentError(trace[i]) # None) =>
            /\ i = Len(trace)
            /\ pc = "fetched"
            /\ value = None
            /\ obs_date = None
            /\ error = DataAbsentError(trace[i])

C11_Witness ==
    /\ pc = "fetched"
    /\ max_retries = 3
    /\ Len(trace) = 1
    /\ IsDocument(trace[1])
    /\ ObservationsOf(trace[1]) # <<>>
    /\ ObservationsOf(trace[1])[1].value = Some(<<".">>)
    /\ error = Some(Msg("Latest observation is missing/NA"))

(***************************************************************************)
(* Properties of the snapshot build.                                       *)
(***************************************************************************)
RequiredKeys == {"label", "series_id", "source"}

IsConfigured(cfg) == cfg # None /\ RequiredKeys \subseteq DOMAIN cfg[1]

\* C12: whatever the fetch of the indicator ends in, the run goes on to
\* build and persist the snapshot with the indicator in it: unless a step
\* of the write fails the run ends on the success path with the snapshot
\* published, and after a failed fetch the entry has value null, signal
\* "unknown" and the error text as notes.
C12_FetchOutcomeIsolated ==
    IsConfigured(unrate_cfg) =>
        /\ (failed_step = "none" /\ pc \in EndedPcs) =>
              /\ pc = "done"
              /\ exit_status = Some(0)
              /\ fs[latest_path] = Some(File(payload[1], DocChunks))
        /\ payload # None =>
              /\ Len(payload[1].indicators) = 1
              /\ payload[1].indicators[1].key = "unrate"
              /\ error # None =>
                    /\ payload[1].indicators[1].value = None
                    /\ payload[1].indicators[1].signal = "unknown"
                    /\ payload[1].indicators[1].notes = error[1]

\* C13: an indicator configured without its series id, label or source is
\* a recoverable error of that indicator: the run goes on, the payload
\* records the indicator with signal "unknown", and unless a step of the
\* write fails the snapshot is published and the run exits with status 0.
C13_MissingKeyRecoverable ==
    (unrate_cfg # None /\ ~(RequiredKeys \subseteq DOMAIN unrate_cfg[1])) =>
        /\ pc \in EndedPcs =>
              /\ payload # None
              /\ Len(payload[1].indicators) = 1
              /\ payload[1].indicators[1].key = "unrate"
              /\ payload[1].indicators[1].signal = "unknown"
        /\ (failed_step = "none" /\ pc \in EndedPcs) =>
              /\ pc = "done"
              /\ exit_status = Some(0)
              /\ fs[latest_path] = Some(File(payload[1], DocChunks))

\* the indicators the configuration declares and enables
EnabledIndicators ==
    (IF unrate_cfg # None THEN {"unrate"} ELSE {}) \cup other_indicators

\* C14: the payload's indicators hold exactly one result for each enabled
\* indicator of the configuration and none for any other, each made of
\* the fetch result and its classification.
C14_OneResultPerEnabledIndicator ==
    payload # None =>
        LET inds == payload[1].indicators IN
        /\ \A k \in EnabledIndicators :
              Cardinality({i \in 1..Len(inds) : inds[i].key = k}) = 1
        /\ \A i \in 1..Len(inds) : inds[i].key \in EnabledIndicators
        /\ \A i \in 1..Len(inds) :
              /\ inds[i].signal = signal
              /\ inds[i].value = None <=> value = None

\* the fields of a payload that no run started at another time could
\* build differently: they are fixed by the configuration, the mode and
\* the fetch result
EntryIsClockFree(e) ==
    /\ e.key = "unrate"
    /\ e.label = unrate_cfg[1]["label"]
    /\ e.source = unrate_cfg[1]["source"]
    /\ e.unit = "%"
    /\ e.signal = (IF value = None THEN "unknown" ELSE signal)
    /\ e.value = None <=> value = None
    /\ e.value # None =>
          /\ e.value[1] % (10^(FracDigits - 2)) = 0
          /\ 2 * (e.value[1] - value[1]) <= 10^(FracDigits - 2)
          /\ 2 * (value[1] - e.value[1]) <= 10^(FracDigits - 2)
    /\ e.notes = (IF error # None THEN error[1]
                  ELSE Msg(IF "notes" \in DOMAIN unrate_cfg[1]
                           THEN unrate_cfg[1]["notes"] ELSE ""))

\* C15 as stated: two runs with the same configuration, mode, credential
\* and responses build payloads equal in everything but the top-level
\* timestamp, whatever their clocks read: so no indicator entry carries a
\* reading of the clock.
C15_EntriesSameAtAnyClockAsStated ==
    payload # None =>
        /\ payload[1].mode = mode
        /\ \A i \in 1..Len(payload[1].indicators) :
              /\ EntryIsClockFree(payload[1].indicators[i])
              /\ payload[1].indicators[i].timestamp.at = 0

\* C15 amended: the two payloads are equal in everything but the
\* top-level timestamp and the timestamp of each entry whose fetch
\* returned no observation date, which is a reading of the clock; an
\* entry whose fetch returned a date is stamped with that date.
C15_EntriesSameButFallbackStamp ==
    payload # None =>
        /\ payload[1].mode = mode
        /\ payload[1].project = "SolonInsight"
        /\ payload[1].meta = [version |-> 1, generated_by |-> "dashboard.py"]
        /\ \A i \in 1..Len(payload[1].indicators) :
              /\ EntryIsClockFree(payload[1].indicators[i])
              /\ Truthy(obs_date) =>
                    payload[1].indicators[i].timestamp = DateStamp(obs_date[1])
              /\ ~Truthy(obs_date) =>
                    /\ payload[1].indicators[i].timestamp.date = ""
                    /\ payload[1].indicators[i].timestamp.at \in 1..clock

C15_Witness ==
    /\ pc = "done"
    /\ error # None
    /\ Len(payload[1].indicators) = 1
    /\ payload[1].indicators[1].timestamp = ClockStamp(1)
    /\ payload[1].indicators[1].value = None
    /\ fs[latest_path] = Some(File(payload[1], DocChunks))


\* the conditions C16 gives a delay for, the delay after 0-based attempt a,
\* and the text of the error returned when the condition ends the call
IsTimeout(e) == e.op = "get" /\ e.kind = "exception" /\ "Timeout" \in e.exc
IsConnectionError(e) ==
    e.op = "get" /\ e.kind = "exception" /\ ~IsTimeout(e)
        /\ "ConnectionError" \in e.exc
IsMalformedBody(e) == e.op = "get" /\ e.kind = "malformed"
InSchedule(e) == IsRetryable(e) \/ IsMalformedBody(e)

ScheduledDelay(e, a) ==
    IF e.kind = "response" /\ e.n = 429 THEN 2^(a + 2)
    ELSE IF IsMalformedBody(e) THEN 1
    ELSE 2^a

ExhaustionError(e, n) ==
    IF e.kind = "response" /\ e.n = 429 THEN MsgAt("FRED API: Rate limited", 0, n, n)
    ELSE IF Is5xx(e) THEN MsgAt("FRED API: HTTP", e.n, n, n)
    ELSE IF IsTimeout(e) THEN MsgAt("FRED API timeout", 0, n, n)
    ELSE IF IsConnectionError(e) THEN MsgAt("FRED API: Connection error", 0, n, n)
    ELSE MsgAt("Invalid JSON from FRED", 0, n, n)

\* C16: after 0-based attempt i the call sleeps 2^(i+2) seconds on a 429,
\* 2^i seconds on a 5xx status, a timeout or a connection error, and 1
\* second on a malformed body; it sleeps for nothing else and never after
\* the final attempt, where it returns that attempt's error annotated
\* with attempt max_retries of max_retries.
C16_BackoffSchedule ==
    /\ \A i \in 1..Len(trace) :
          InSchedule(trace[i]) =>
              IF AttemptOf(trace, i) < max_retries - 1
              THEN /\ i < Len(trace)
                   /\ trace[i + 1] = SleepEv(ScheduledDelay(trace[i], AttemptOf(trace, i)))
              ELSE /\ i = Len(trace)
                   /\ pc = "fetched"
                   /\ value = None
                   /\ error = Some(ExhaustionError(trace[i], max_retries))
    /\ \A i \in 1..Len(trace) :
          trace[i].op = "sleep" =>
              /\ i > 1
              /\ InSchedule(trace[i - 1])
              /\ AttemptOf(trace, i - 1) < max_retries - 1


\* C17: in every payload built an indicator's timestamp is the observation
\* date the fetch returned, if it returned one, and otherwise equal to the
\* payload's own top-level timestamp, whatever the clock does during the
\* run; the top-level timestamp is a reading of the clock and no date.
C17_EntryStampIsDateOrGenerationTime ==
    payload # None =>
        /\ payload[1].timestamp.date = ""
        /\ payload[1].timestamp.at \in 1..clock
        /\ \A i \in 1..Len(payload[1].indicators) :
              payload[1].indicators[i].timestamp =
                  IF Truthy(obs_date) THEN DateStamp(obs_date[1])
                  ELSE payload[1].timestamp


\* A direct call that is eventually allowed to take its next step.
SpecFetchFair == FetchInit /\ [][FetchNext]_vars /\ WF_vars(FetchNext)

FetchEnded == pc \in {"fetched", "raised"}

\* the bounds C18 puts on a call's requests and sleeps
C18_Bounded ==
    /\ Len(Gets(trace)) <= (IF max_retries > 0 THEN max_retries ELSE 0)
    /\ Len(Sleeps(trace)) <= (IF max_retries > 1 THEN max_retries - 1 ELSE 0)
    /\ \A i \in 1..Len(trace) :
          trace[i].op = "get" /\ Len(Gets(SubSeq(trace, 1, i))) > 1 =>
              /\ trace[i - 1].op = "sleep"
              /\ trace[i - 2].op = "get"
    /\ Len(trace) > 0 => trace[1].op = "get"
    /\ max_retries <= 0 =>
          /\ trace = <<>>
          /\ pc = "fetched" /\ Truthy(api_key) =>
                /\ error = Some(Msg("Max retries exceeded"))
                /\ value = None
                /\ obs_date = None
    /\ pc = "fetched" => (value = None) # (error = None)

C18_WitnessNoRequest ==
    /\ pc = "fetched"
    /\ max_retries = -1
    /\ trace = <<>>
    /\ error = Some(Msg("Max retries exceeded"))


\* C19: every result fetch_fred_series returns has exactly one of value
\* and error: a value comes with a date and no error, an error with no
\* value and no date; so in every payload entry the signal is "unknown"
\* exactly when the value is null, and the notes are the error text
\* exactly when the fetch failed, the configured note otherwise.
C19_ExactlyOneOfValueAndError ==
    /\ pc \in AfterFetchPcs /\ unrate_cfg # None =>
          /\ (value = None) # (error = None)
          /\ value # None => obs_date # None
          /\ error # None => obs_date = None
    /\ payload # None =>
          \A i \in 1..Len(payload[1].indicators) :
              LET e == payload[1].indicators[i]
                  note == Msg(IF "notes" \in DOMAIN unrate_cfg[1]
                              THEN unrate_cfg[1]["notes"] ELSE "")
              IN
              /\ e.signal = "unknown" <=> e.value = None
              /\ e.value = None <=> error # None
              /\ error # None => e.notes = error[1] /\ e.notes # note
              /\ error = None => e.notes = note

C19_Witness ==
    /\ pc = "done"
    /\ value = None
    /\ obs_date = None
    /\ error = Some(Msg("No observations returned from FRED"))
    /\ Len(payload[1].indicators) = 1
    /\ payload[1].indicators[1].signal = "unknown"
    /\ payload[1].indicators[1].value = None
    /\ payload[1].indicators[1].notes = Msg("No observations returned from FRED")


(***************************************************************************)
(* Properties of two concurrent runs.                                      *)
(***************************************************************************)
Published == dir[latest_path]
PublishedPartial == Published # NoInode /\ ~IsWhole(inodes[Published].data)
PastRemove == {"rename", "done", "except", "cleanup", "exited", "aborted"}

\* C20: two runs share the temporary path and take no lock.  A run that
\* finishes before the other has opened the temporary file publishes its
\* whole document; the destination holds a partial document only when
\* both runs opened the file that was renamed (one truncating or writing
\* it around the other's rename), and a run's remove, rename or cleanup
\* fails only when the other run has already removed or moved a file.
C20_RaceOnSharedTemp ==
    /\ \A r \in Runs :
          procs[r].pc = "done" /\ procs[Other(r)].pc = "open_temp" =>
              /\ Published = procs[r].fd
              /\ inodes[Published].data = Chunks(r, DocChunks)
              /\ dir[temp_path] = NoInode
    /\ PublishedPartial => inodes[Published].openers = Runs
    /\ \A r \in Runs :
          procs[r].failed # "none" => procs[Other(r)].pc \in PastRemove

\* one run has renamed the file the other has truncated or partly written
C20_Witness ==
    \E r \in Runs :
        /\ procs[r].pc = "done"
        /\ procs[Other(r)].pc = "dump"
        /\ procs[Other(r)].fd = Published
        /\ PublishedPartial

\* a run's rename fails because the other run moved the temporary file
C20_WitnessRenameFails ==
    \E r \in Runs :
        /\ procs[r].failed = "rename"
        /\ procs[Other(r)].pc = "done"

\* a run's cleanup fails because the other run moved the temporary file
C20_WitnessCleanupFails ==
    \E r \in Runs :
        /\ procs[r].failed = "cleanup"
        /\ procs[Other(r)].pc = "done"

====
